---- MODULE Spec2Model ----
(***************************************************************************)
(* Verification model of ViT-Hand-Pose-Estimation.                         *)
(*                                                                         *)
(*   Spec     main() and train() of main.py: the epoch loop with the       *)
(*            scheduler step, periodic checkpoints, early stopping and     *)
(*            the final save.                                              *)
(*   SpecViT  construction of ViT and the forward pass of its stages       *)
(*            (models/model.py), at the level of tensor shapes.            *)
(*   SpecIoU  IoULoss.forward (models/model.py) in exact arithmetic.       *)
(***************************************************************************)
EXTENDS Integers, Sequences, FiniteSets, TLC

VARIABLES
    \* ---- main.py ----
    pc,                     \* position in main()/train()
    args,                   \* parsed command line: [train, epochs]
    config,                 \* the module-level config dict: [epochs]
    epochs,                 \* train() parameter
    scheduler,              \* train() parameter: TRUE = a scheduler, FALSE = None
    checkpoint_frequency,   \* train() parameter
    early_stopping_avg,     \* train() parameter
    early_stopping_epochs,  \* train() parameter
    epoch,                  \* loop variable of `for epoch in range(epochs)`
    loss,                   \* loss = {"train": [], "val": []}
    min_val_loss,           \* local of train()
    no_decrease_epochs,     \* local of train()
    bound,                  \* which of the two locals have been assigned
    scheduler_calls,        \* arguments of the scheduler.step calls so far
    checkpoints,            \* the NNN parts of the files weights/ViT_model_NNN
    final_saves,            \* number of saves of weights/ViT_model_final.pth
    events,                 \* what the current epoch has done so far, in order
    stopped_early,          \* the loop was left by `break`
    \* ---- models/model.py: ViT ----
    vpc,                    \* position in ViT construction / forward
    vit,                    \* constructor arguments of ViT
    widths,                 \* embedding widths the three stages were built with
    positions_rows,         \* rows of PatchEmbedding.positions
    image_side,             \* side of the square input image
    x,                      \* token sequence flowing through forward
    x_width,                \* width (last axis) of x
    block,                  \* index of the next EncoderBlock to run
    \* ---- models/model.py: IoULoss ----
    lpc,                    \* position in IoULoss.forward
    y_pred,                 \* batch of heatmaps: sequence of heatmaps (rows of pixels)
    y_true,
    iou_loss                \* returned loss as a fraction [num, den]

trainVars == <<pc, args, config, epochs, scheduler, checkpoint_frequency,
               early_stopping_avg, early_stopping_epochs, epoch, loss,
               min_val_loss, no_decrease_epochs, bound, scheduler_calls,
               checkpoints, final_saves, events, stopped_early>>
vitVars == <<vpc, vit, widths, positions_rows, image_side, x, x_width, block>>
iouVars == <<lpc, y_pred, y_true, iou_loss>>
vars == <<trainVars, vitVars, iouVars>>

(***************************************************************************)
(* Bounds of the model.                                                    *)
(***************************************************************************)
MaxEpochs == 4
MaxAvg == 2
MaxStopEpochs == 1
MaxFreq == 2
MaxImg == 5
MaxDepth == 2
MaxPixel == 1
PixelDen == 2
EpsilonInverse == 1000

\* Program constants.
DefaultEpochs == 10
EncoderBlockEmbSize == 768

\* Losses are integers counted in units of the rounding step,
\* 10^-early_stopping_precision; their means are rationals off that grid.
ValLosses == {0, 1}
TrainLosses == {0, 1}
ArgEpochs == {1, DefaultEpochs}

(***************************************************************************)
(* Helpers: numpy / Python built-ins used by train().                      *)
(***************************************************************************)
RECURSIVE SumSeq(_)
SumSeq(s) == IF s = <<>> THEN 0 ELSE Head(s) + SumSeq(Tail(s))

Last(s) == s[Len(s)]

\* Python s[-n:]: the last n elements; for n = 0 it is s[0:], the whole list.
LastN(s, n) ==
    IF n = 0 \/ n >= Len(s) THEN s ELSE SubSeq(s, Len(s) - n + 1, Len(s))

\* np.round of the non-negative rational a / b to an integer: half to even.
RoundHalfEven(a, b) ==
    LET q == a \div b
        r == a % b
    IN  IF 2 * r < b THEN q
        ELSE IF 2 * r > b THEN q + 1
        ELSE IF q % 2 = 0 THEN q ELSE q + 1

\* np.round(np.mean(s), early_stopping_precision), in units of the rounding step.
RoundedMean(s) == RoundHalfEven(SumSeq(s), Len(s))

\* str(n): the decimal digits of n >= 0.
RECURSIVE Str(_)
Str(n) == IF n < 10 THEN <<n>> ELSE Str(n \div 10) \o <<n % 10>>

\* str.zfill(w): left-pad with zeros to width w, never truncating.
RECURSIVE ZFill(_, _)
ZFill(s, w) == IF Len(s) >= w THEN s ELSE ZFill(<<0>> \o s, w)

\* "weights/ViT_model_{}".format(str(epoch + 1).zfill(3)): the NNN part.
CheckpointName(e) == ZFill(Str(e + 1), 3)

(***************************************************************************)
(* main.py: main() and train().                                            *)
(***************************************************************************)
TrainInit ==
    /\ pc = "main"
    /\ args \in [train : BOOLEAN, epochs : ArgEpochs]
    /\ config \in [epochs : 0..MaxEpochs]
    /\ epochs = 0
    /\ scheduler \in BOOLEAN
    /\ checkpoint_frequency \in 1..MaxFreq
    /\ early_stopping_avg \in 0..MaxAvg
    /\ early_stopping_epochs \in 0..MaxStopEpochs
    /\ epoch = 0
    /\ loss = [train |-> <<>>, val |-> <<>>]
    /\ min_val_loss = 0
    /\ no_decrease_epochs = 0
    /\ bound = {}
    /\ scheduler_calls = <<>>
    /\ checkpoints = {}
    /\ final_saves = 0
    /\ events = <<>>
    /\ stopped_early = FALSE

TrainIdle ==
    /\ pc = "idle"
    /\ args = [train |-> FALSE, epochs |-> DefaultEpochs]
    /\ config = [epochs |-> 0]
    /\ epochs = 0
    /\ scheduler = FALSE
    /\ checkpoint_frequency = 1
    /\ early_stopping_avg = 0
    /\ early_stopping_epochs = 0
    /\ epoch = 0
    /\ loss = [train |-> <<>>, val |-> <<>>]
    /\ min_val_loss = 0
    /\ no_decrease_epochs = 0
    /\ bound = {}
    /\ scheduler_calls = <<>>
    /\ checkpoints = {}
    /\ final_saves = 0
    /\ events = <<>>
    /\ stopped_early = FALSE

\* The value main() passes as train()'s `epochs`.
EpochsPassed(a, c) == c.epochs

\* `for epoch in range(n)`: where control goes with the first index e not yet run.
LoopNext(e, n) == IF e < n THEN "epoch_train" ELSE "save"

\* main(): `if args.train:` ... the call of train().
Main ==
    /\ pc = "main"
    /\ UNCHANGED <<vitVars, iouVars>>
    /\ IF args.train
         THEN /\ epochs' = EpochsPassed(args, config)
              /\ pc' = LoopNext(0, epochs')
         ELSE /\ epochs' = epochs
              /\ pc' = "exit"
    /\ UNCHANGED <<args, config, scheduler, checkpoint_frequency,
                   early_stopping_avg, early_stopping_epochs, epoch, loss,
                   min_val_loss, no_decrease_epochs, bound, scheduler_calls,
                   checkpoints, final_saves, events, stopped_early>>

\* utils.epoch_train / utils.epoch_eval run one pass over the data and append
\* its mean loss v to loss["train"] / loss["val"]; train() reads the value back
\* as loss["train"][-1] / loss["val"][-1].
epoch_train(l, v) == [l EXCEPT !.train = Append(@, v)]
epoch_eval(l, v) == [l EXCEPT !.val = Append(@, v)]

\* The call epoch_train(train_dataloader, ..., loss, ...).
EpochTrain ==
    /\ pc = "epoch_train"
    /\ UNCHANGED <<vitVars, iouVars>>
    /\ \E l \in TrainLosses : loss' = epoch_train(loss, l)
    /\ events' = <<"train">>
    /\ pc' = "epoch_eval"
    /\ UNCHANGED <<args, config, epochs, scheduler, checkpoint_frequency,
                   early_stopping_avg, early_stopping_epochs, epoch,
                   min_val_loss, no_decrease_epochs, bound, scheduler_calls,
                   checkpoints, final_saves, stopped_early>>

\* The call epoch_eval(val_dataloader, ..., loss, ...).
EpochEval ==
    /\ pc = "epoch_eval"
    /\ UNCHANGED <<vitVars, iouVars>>
    /\ \E l \in ValLosses : loss' = epoch_eval(loss, l)
    /\ events' = Append(events, "eval")
    /\ pc' = "sched"
    /\ UNCHANGED <<args, config, epochs, scheduler, checkpoint_frequency,
                   early_stopping_avg, early_stopping_epochs, epoch,
                   min_val_loss, no_decrease_epochs, bound, scheduler_calls,
                   checkpoints, final_saves, stopped_early>>

\* The argument of scheduler.step.
StepArgVal(l) == Last(l.val)
StepArg(l) == Last(l.train)

\* `if scheduler is not None: scheduler.step(loss["train"][-1])`
SchedulerStep ==
    /\ pc = "sched"
    /\ UNCHANGED <<vitVars, iouVars>>
    /\ IF scheduler
         THEN /\ scheduler_calls' = Append(scheduler_calls, StepArg(loss))
              /\ events' = Append(events, "step")
         ELSE UNCHANGED <<scheduler_calls, events>>
    /\ pc' = "ckpt"
    /\ UNCHANGED <<args, config, epochs, scheduler, checkpoint_frequency,
                   early_stopping_avg, early_stopping_epochs, epoch, loss,
                   min_val_loss, no_decrease_epochs, bound,
                   checkpoints, final_saves, stopped_early>>

\* `(epoch + 1) % checkpoint_frequency == 0`
IsCheckpointEpochZeroBased(e, f) == e % f = 0
IsCheckpointEpoch(e, f) == (e + 1) % f = 0

\* `if (epoch + 1) % checkpoint_frequency == 0: torch.save(...)`
Checkpoint ==
    /\ pc = "ckpt"
    /\ UNCHANGED <<vitVars, iouVars>>
    /\ IF IsCheckpointEpoch(epoch, checkpoint_frequency)
         THEN /\ checkpoints' = checkpoints \cup {CheckpointName(epoch)}
              /\ events' = Append(events, "checkpoint")
         ELSE UNCHANGED <<checkpoints, events>>
    /\ pc' = "stop"
    /\ UNCHANGED <<args, config, epochs, scheduler, checkpoint_frequency,
                   early_stopping_avg, early_stopping_epochs, epoch, loss,
                   min_val_loss, no_decrease_epochs, bound, scheduler_calls,
                   final_saves, stopped_early>>

\* `val_loss >= min_val_loss`
NoDecreaseStrict(v, m) == v > m
NoDecrease(v, m) == v >= m

\* The early-stopping block: the locals after it, or the failure of a read of
\* an unassigned local.  Result: [raised, min_val_loss, no_decrease_epochs, bound].
EarlyStoppingUpdate ==
    IF epoch < early_stopping_avg
    THEN [raised |-> FALSE,
          min_val_loss |-> RoundedMean(loss.val),
          no_decrease_epochs |-> 0,
          bound |-> bound \cup {"min_val_loss", "no_decrease_epochs"}]
    ELSE LET val_loss == RoundedMean(LastN(loss.val, early_stopping_avg))
         IN  IF "min_val_loss" \notin bound
             THEN [raised |-> TRUE, min_val_loss |-> min_val_loss,
                   no_decrease_epochs |-> no_decrease_epochs, bound |-> bound]
             ELSE IF NoDecrease(val_loss, min_val_loss)
             THEN [raised |-> "no_decrease_epochs" \notin bound,
                   min_val_loss |-> min_val_loss,
                   no_decrease_epochs |->
                       IF "no_decrease_epochs" \in bound
                       THEN no_decrease_epochs + 1 ELSE no_decrease_epochs,
                   bound |-> bound]
             ELSE [raised |-> FALSE,
                   min_val_loss |-> val_loss,
                   no_decrease_epochs |-> 0,
                   bound |-> bound \cup {"no_decrease_epochs"}]

\* `if no_decrease_epochs > early_stopping_epochs: break`
ShouldStop(n, limit) == n > limit

\* Lines "# stop early" to `break`, and the loop header that follows.
EarlyStopping ==
    /\ pc = "stop"
    /\ UNCHANGED <<vitVars, iouVars>>
    /\ LET u == EarlyStoppingUpdate
       IN  /\ min_val_loss' = u.min_val_loss
           /\ no_decrease_epochs' = u.no_decrease_epochs
           /\ bound' = u.bound
           /\ IF u.raised \/ "no_decrease_epochs" \notin u.bound
                THEN /\ pc' = "raised"
                     /\ UNCHANGED <<epoch, stopped_early, events>>
                ELSE /\ events' = Append(events, "stop_check")
                     /\ IF ShouldStop(u.no_decrease_epochs, early_stopping_epochs)
                          THEN /\ stopped_early' = TRUE
                               /\ pc' = "save"
                               /\ epoch' = epoch
                          ELSE /\ stopped_early' = FALSE
                               /\ pc' = LoopNext(epoch + 1, epochs)
                               /\ epoch' = IF epoch + 1 < epochs
                                             THEN epoch + 1 ELSE epoch
    /\ UNCHANGED <<args, config, epochs, scheduler, checkpoint_frequency,
                   early_stopping_avg, early_stopping_epochs, loss,
                   scheduler_calls, checkpoints, final_saves>>

\* What leaving the loop does before `return model, loss`.
FinalSavesSkippedOnBreak(n, broke) == IF broke THEN n ELSE n + 1
FinalSavesAfterLoop(n, broke) == n + 1

\* `torch.save(model.state_dict(), "weights/ViT_model_final.pth")`, `return`.
SaveFinal ==
    /\ pc = "save"
    /\ UNCHANGED <<vitVars, iouVars>>
    /\ final_saves' = FinalSavesAfterLoop(final_saves, stopped_early)
    /\ events' = Append(events, "final_save")
    /\ pc' = "returned"
    /\ UNCHANGED <<args, config, epochs, scheduler, checkpoint_frequency,
                   early_stopping_avg, early_stopping_epochs, epoch, loss,
                   min_val_loss, no_decrease_epochs, bound, scheduler_calls,
                   checkpoints, stopped_early>>

TrainNext ==
    \/ Main
    \/ EpochTrain
    \/ EpochEval
    \/ SchedulerStep
    \/ Checkpoint
    \/ EarlyStopping
    \/ SaveFinal

VitIdle ==
    /\ vpc = "idle"
    /\ vit = [img_size |-> 1, patch_size |-> 1, emb_size |-> 1, depth |-> 1]
    /\ widths = [patch |-> 0, blocks |-> <<>>, head |-> 0]
    /\ positions_rows = 0
    /\ image_side = 1
    /\ x = <<>>
    /\ x_width = 0
    /\ block = 1

IouIdle ==
    /\ lpc = "idle"
    /\ y_pred = <<>>
    /\ y_true = <<>>
    /\ iou_loss = [num |-> 0, den |-> 1]

Init == TrainInit /\ VitIdle /\ IouIdle
Next == TrainNext
Spec == Init /\ [][Next]_vars

(***************************************************************************)
(* Claims about main() and train(), checked under Spec.                    *)
(***************************************************************************)
Range(s) == {s[i] : i \in 1..Len(s)}

\* The early-stopping decision of the last epoch in loss["val"] has been taken.
StopDecided == pc \in {"epoch_train", "save", "returned"} /\ Len(loss.val) >= 1

\* The integer nearest to a / b, the even one of the two on a tie.
NearestEven(a, b) ==
    CHOOSE r \in 0..a :
        \/ 2 * (IF a >= r * b THEN a - r * b ELSE r * b - a) < b
        \/ /\ 2 * (IF a >= r * b THEN a - r * b ELSE r * b - a) = b
           /\ r % 2 = 0

\* Rounded mean of the early_stopping_avg validation losses ending at epoch k (0-based).
WindowMean(k) ==
    NearestEven(SumSeq(SubSeq(loss.val, k - early_stopping_avg + 2, k + 1)),
                early_stopping_avg)

\* min_val_loss as epoch k reads it: the seed and the windowed means before k.
MinBefore(k) ==
    LET seen == {WindowMean(j) : j \in (early_stopping_avg - 1)..(k - 1)}
    IN  CHOOSE m \in seen : \A n \in seen : m <= n

NoDecreaseAt(k) == k >= early_stopping_avg /\ WindowMean(k) >= MinBefore(k)

\* Number of consecutive epochs, ending with epoch k, without a decrease.
ConsecutiveNoDecrease(k) ==
    CHOOSE c \in 0..(k + 1) :
        /\ \A j \in (k - c + 1)..k : NoDecreaseAt(j)
        /\ c = k + 1 \/ ~NoDecreaseAt(k - c)

\* C1: for early_stopping_avg >= 1, after every epoch's early-stopping decision
\* no_decrease_epochs is the number of consecutive epochs (index >= early_stopping_avg)
\* whose rounded windowed mean was >= min_val_loss, min_val_loss is the smallest
\* rounded windowed mean seen (seeded with the first window), the loop was left by
\* break iff no_decrease_epochs > early_stopping_epochs, never before
\* early_stopping_avg + early_stopping_epochs + 1 epochs, and a strict decrease
\* resets the counter to 0.
C1_EarlyStopping ==
    (early_stopping_avg >= 1 /\ StopDecided) =>
        LET k == Len(loss.val) - 1
        IN  /\ no_decrease_epochs =
                   (IF k >= early_stopping_avg THEN ConsecutiveNoDecrease(k) ELSE 0)
            /\ (k >= early_stopping_avg - 1 => min_val_loss = MinBefore(k + 1))
            /\ (stopped_early <=> no_decrease_epochs > early_stopping_epochs)
            /\ (stopped_early =>
                   k + 1 >= early_stopping_avg + early_stopping_epochs + 1)
            /\ (k >= early_stopping_avg /\ WindowMean(k) < MinBefore(k)
                   => no_decrease_epochs = 0)

\* Training stopped early after the windowed mean had strictly decreased below the seed.
C1_Witness ==
    /\ stopped_early
    /\ pc = "save"
    /\ early_stopping_avg >= 2
    /\ min_val_loss < WindowMean(early_stopping_avg - 1)

Terminal == pc \in {"returned", "raised", "exit"}

\* C2: train() never runs more than `epochs` epochs and, until it has ended, always
\* has a next step (every step appends a loss or moves on within the epoch, so
\* with the first bound it ends); when it has returned, by exhausting the loop or
\* by break, the final weights were saved exactly once, as the last thing done,
\* and they are not saved before.
C2_TerminatesAndSaves ==
    /\ Terminal \/ ENABLED Next
    /\ Len(loss.train) <= epochs
    /\ Len(loss.val) <= Len(loss.train)
    /\ (pc = "returned" => final_saves = 1 /\ Last(events) = "final_save")
    /\ (pc # "returned" => final_saves = 0)

\* train() returned after an early-stop break, with the final save done.
C2_Witness ==
    /\ pc = "returned"
    /\ stopped_early
    /\ Len(loss.train) < epochs
    /\ final_saves = 1

\* Number of epochs whose checkpoint decision has been taken.
CheckpointDecisions ==
    IF pc \in {"epoch_eval", "sched", "ckpt"}
    THEN Len(loss.train) - 1 ELSE Len(loss.train)

\* The NNN of weights/ViT_model_NNN for a 1-based epoch number n < 1000.
ThreeDigits(n) == <<(n \div 100) % 10, (n \div 10) % 10, n % 10>>

\* C3: the periodic checkpoints that exist are exactly those of the completed
\* epochs whose 1-based number is a multiple of checkpoint_frequency, so there are
\* floor(k / checkpoint_frequency) of them after k epochs; the epoch on which
\* early stopping triggers is checkpointed when its number is such a multiple.
C3_Checkpoints ==
    LET k == CheckpointDecisions
    IN  /\ checkpoints =
             {ThreeDigits(n) : n \in {m \in 1..k : m % checkpoint_frequency = 0}}
        /\ Cardinality(checkpoints) = k \div checkpoint_frequency
        /\ (stopped_early /\ (epoch + 1) % checkpoint_frequency = 0
               => ThreeDigits(epoch + 1) \in checkpoints)

\* Early stopping triggered on an epoch that was checkpointed.
C3_Witness ==
    /\ stopped_early
    /\ checkpoint_frequency = 2
    /\ (epoch + 1) % checkpoint_frequency = 0
    /\ ThreeDigits(epoch + 1) \in checkpoints
    /\ "checkpoint" \in Range(events)

\* Number of epochs whose scheduler step is behind.
StepsDue ==
    IF pc \in {"epoch_eval", "sched"} THEN Len(loss.train) - 1 ELSE Len(loss.train)

Rank(e) ==
    CASE e = "train" -> 1
      [] e = "eval" -> 2
      [] e = "step" -> 3
      [] e = "checkpoint" -> 4
      [] e = "stop_check" -> 5
      [] e = "final_save" -> 6

\* C4: with a scheduler, scheduler.step has been called exactly once per epoch
\* that reached it, each time with that epoch's training loss; without one it is
\* never called; within an epoch the events happen in the order train, eval,
\* scheduler step, checkpoint, early-stop check.
C4_SchedulerStep ==
    /\ scheduler => scheduler_calls = SubSeq(loss.train, 1, StepsDue)
    /\ ~scheduler => scheduler_calls = <<>> /\ "step" \notin Range(events)
    /\ \A i, j \in 1..Len(events) : i < j => Rank(events[i]) < Rank(events[j])
    /\ \A i \in 1..Len(events) :
          Rank(events[i]) \in 3..5 =>
              /\ Len(events) >= 2 /\ events[1] = "train" /\ events[2] = "eval"
              /\ (scheduler /\ Rank(events[i]) > 3 => events[3] = "step")

\* A second epoch ended, with a step whose training loss differs from the validation loss.
C4_Witness ==
    /\ scheduler
    /\ Len(scheduler_calls) >= 2
    /\ Last(loss.train) # Last(loss.val)
    /\ events = <<"train", "eval", "step", "checkpoint", "stop_check">>

\* C5: when main() runs with --train, train()'s epoch bound is the parsed
\* --epochs value.
C5_EpochsOption ==
    (args.train /\ pc # "main") => epochs = args.epochs

\* C9: for epochs >= 1, early_stopping_avg >= 0 and early_stopping_epochs >= 0
\* the early-stopping block never reads min_val_loss or no_decrease_epochs
\* before they are assigned.
C9_NoUnboundLocal ==
    (epochs >= 1 /\ early_stopping_avg >= 0 /\ early_stopping_epochs >= 0)
        => pc # "raised"

(***************************************************************************)
(* models/model.py: ViT, PatchEmbedding, TransformerEncoder,               *)
(* ClassificationHead, at the level of tensor shapes.                      *)
(***************************************************************************)
EmbSizes == {256, 512, EncoderBlockEmbSize}
NoKwargs == [k \in {} |-> 0]
Kwargs == {NoKwargs, [num_heads |-> 4]}

VitInit ==
    /\ vpc = "new"
    /\ vit \in {v \in [img_size : 1..MaxImg, patch_size : 1..MaxImg,
                       emb_size : EmbSizes, depth : 1..MaxDepth, kwargs : Kwargs] :
                  v.patch_size <= v.img_size}
    /\ widths = [patch |-> 0, blocks |-> <<>>, head |-> 0]
    /\ positions_rows = 0
    /\ image_side = vit.img_size
    /\ x = <<>>
    /\ x_width = 0
    /\ block = 1

\* EncoderBlock.__init__(emb_size=768, ..., **kwargs): the width it is built with.
BlockEmbSize(kw) ==
    IF "emb_size" \in DOMAIN kw THEN kw.emb_size ELSE EncoderBlockEmbSize

\* ViT.__init__: `TransformerEncoder(depth, **kwargs)`.  emb_size is a named
\* parameter of ViT.__init__, so it is never part of kwargs.
EncoderKwargs(v) == v.kwargs

\* torch.randn((img_size // patch_size) ** 2 + 1, emb_size): the number of rows.
PositionRows(img, patch) == (img \div patch) * (img \div patch) + 1

\* ViT.__init__ with PatchEmbedding.__init__, TransformerEncoder.__init__ and
\* ClassificationHead.__init__.
Construct ==
    /\ vpc = "new"
    /\ UNCHANGED <<trainVars, iouVars>>
    /\ widths' = [patch |-> vit.emb_size,
                  blocks |-> [i \in 1..vit.depth |-> BlockEmbSize(EncoderKwargs(vit))],
                  head |-> vit.emb_size]
    /\ positions_rows' = PositionRows(vit.img_size, vit.patch_size)
    /\ vpc' = "projection"
    /\ UNCHANGED <<vit, image_side, x, x_width, block>>

\* nn.Conv2d(kernel_size=k, stride=stride), no padding: the offsets along one
\* axis at which the kernel is applied to an input of the given side.
ConvStartsPadded(side, k, stride) == {i \in 0..(side - 1) : i % stride = 0}
ConvStarts(side, k, stride) ==
    {i \in 0..(side - 1) : i % stride = 0 /\ i + k <= side}

\* self.projection(x): Conv2d, then Rearrange("b e (h) (w) -> b (h w) e").
PatchProjection ==
    /\ vpc = "projection"
    /\ UNCHANGED <<trainVars, iouVars>>
    /\ LET n == Cardinality(ConvStarts(image_side, vit.patch_size, vit.patch_size))
       IN  x' = [i \in 1..(n * n) |->
                    [kind |-> "patch",
                     h |-> ((i - 1) \div n) * vit.patch_size,
                     w |-> ((i - 1) % n) * vit.patch_size]]
    /\ x_width' = widths.patch
    /\ vpc' = "cat"
    /\ UNCHANGED <<vit, widths, positions_rows, image_side, block>>

\* torch.cat([class_tokens, x], dim=1)
Cat(cls, s) == <<cls>> \o s

CatClassToken ==
    /\ vpc = "cat"
    /\ UNCHANGED <<trainVars, iouVars>>
    /\ x' = Cat([kind |-> "cls", h |-> 0, w |-> 0], x)
    /\ vpc' = "add_positions"
    /\ UNCHANGED <<vit, widths, positions_rows, image_side, x_width, block>>

\* `x += self.positions`: (b, n, e) += (rows, e) broadcasts iff rows is n or 1.
AddPositions ==
    /\ vpc = "add_positions"
    /\ UNCHANGED <<trainVars, iouVars>>
    /\ vpc' = IF positions_rows = Len(x) \/ positions_rows = 1
                THEN "encoder" ELSE "shape_error"
    /\ UNCHANGED <<vit, widths, positions_rows, image_side, x, x_width, block>>

\* One EncoderBlock: nn.LayerNorm(emb_size) and the nn.Linear(emb_size, ...) layers
\* need the last axis of x to be emb_size; ResidualAdd keeps the shape.
EncoderBlockForward ==
    /\ vpc = "encoder"
    /\ UNCHANGED <<trainVars, iouVars>>
    /\ IF x_width # widths.blocks[block]
         THEN vpc' = "shape_error" /\ block' = block
         ELSE IF block < Len(widths.blocks)
         THEN vpc' = "encoder" /\ block' = block + 1
         ELSE vpc' = "head" /\ block' = block
    /\ UNCHANGED <<vit, widths, positions_rows, image_side, x, x_width>>

\* ClassificationHead: Reduce mean over tokens, LayerNorm(emb_size), Linear.
HeadForward ==
    /\ vpc = "head"
    /\ UNCHANGED <<trainVars, iouVars>>
    /\ vpc' = IF x_width = widths.head THEN "done" ELSE "shape_error"
    /\ UNCHANGED <<vit, widths, positions_rows, image_side, x, x_width, block>>

VitNext ==
    \/ Construct
    \/ PatchProjection
    \/ CatClassToken
    \/ AddPositions
    \/ EncoderBlockForward
    \/ HeadForward

InitViT == TrainIdle /\ VitInit /\ IouIdle
SpecViT == InitViT /\ [][VitNext]_vars

\* PatchEmbedding.forward has prepended the class token.
Embedded == vpc \in {"add_positions", "encoder", "head", "done", "shape_error"}

\* C7: for 1 <= patch_size <= img_size, PatchEmbedding.forward yields
\* (img_size // patch_size)^2 + 1 tokens: the class token at index 0, then one
\* token per patch, the patches lying inside the image without overlapping; the
\* length is the number of rows of the position embedding and the addition of
\* the positions succeeds.
C7_TokenCount ==
    Embedded =>
        LET p == vit.patch_size
            q == vit.img_size \div p
        IN  /\ Len(x) = q * q + 1
            /\ x[1].kind = "cls"
            /\ \A i \in 2..Len(x) :
                  /\ x[i].kind = "patch"
                  /\ x[i].h + p <= vit.img_size
                  /\ x[i].w + p <= vit.img_size
            /\ \A i, j \in 2..Len(x) :
                  i # j => \/ x[i].h + p <= x[j].h \/ x[j].h + p <= x[i].h
                           \/ x[i].w + p <= x[j].w \/ x[j].w + p <= x[i].w
            /\ Len(x) = positions_rows
            /\ (vpc = "shape_error" => block = 1 /\ x_width # widths.blocks[1])

\* Positions were added for a patch size that does not divide the image side.
C7_Witness ==
    /\ vpc = "encoder"
    /\ vit.img_size % vit.patch_size # 0
    /\ Len(x) >= 5

\* C8: for every emb_size passed to ViT, the PatchEmbedding output, every
\* EncoderBlock and the ClassificationHead input have that width, and the stages
\* compose without a dimension mismatch.
C8_SameWidth ==
    vpc # "new" =>
        /\ widths.patch = vit.emb_size
        /\ \A i \in 1..Len(widths.blocks) : widths.blocks[i] = vit.emb_size
        /\ widths.head = vit.emb_size
        /\ vpc # "shape_error"

(***************************************************************************)
(* models/model.py: IoULoss, in exact rational arithmetic.                 *)
(*                                                                         *)
(* A pixel is the rational p / PixelDen for an integer p.  EPSILON is      *)
(* 1 / EpsilonInverse; the code's 1e-6 is scaled to keep the products of   *)
(* two denominators within TLC's 32-bit integers.  All sums below are in   *)
(* units of 1 / PixelDen^2, and a fraction is a record [num, den].         *)
(***************************************************************************)
Pixels == -1..MaxPixel
Shapes == {<<1, 2>>, <<2, 1>>}
BatchSizes == {1, 2}

Heatmaps(shape) == [1..shape[1] -> [1..shape[2] -> Pixels]]

IouInit ==
    /\ lpc = "call"
    /\ \E shape \in Shapes, b \in BatchSizes :
          /\ y_pred \in [1..b -> Heatmaps(shape)]
          /\ y_true \in [1..b -> Heatmaps(shape)]
    /\ iou_loss = [num |-> 0, den |-> 1]

\* Elementwise product of two heatmaps: y_true * y_pred, y ** 2.
Mul(a, b) == [r \in DOMAIN a |-> [c \in DOMAIN a[r] |-> a[r][c] * b[r][c]]]

\* op_sum: x.sum(-1).sum(-1), the row sums and then their sum.
OpSum(m) == SumSeq([r \in DOMAIN m |-> SumSeq(m[r])])

Inter(t, p) == OpSum(Mul(t, p))

\* union = op_sum(y_true ** 2) + op_sum(y_pred ** 2) - op_sum(y_true * y_pred)
UnionWithoutOverlap(t, p) == OpSum(Mul(t, t)) + OpSum(Mul(p, p))
Union(t, p) == OpSum(Mul(t, t)) + OpSum(Mul(p, p)) - OpSum(Mul(t, p))

\* (inter + EPSILON) / (union + EPSILON) of one heatmap.
Iou(t, p) ==
    [num |-> Inter(t, p) * EpsilonInverse + PixelDen * PixelDen,
     den |-> Union(t, p) * EpsilonInverse + PixelDen * PixelDen]

AddFrac(a, b) == [num |-> a.num * b.den + b.num * a.den, den |-> a.den * b.den]

RECURSIVE SumFrac(_)
SumFrac(s) ==
    IF s = <<>> THEN [num |-> 0, den |-> 1] ELSE AddFrac(Head(s), SumFrac(Tail(s)))

\* torch.mean(iou)
Mean(s) == [num |-> SumFrac(s).num, den |-> SumFrac(s).den * Len(s)]

\* IoULoss.forward(y_pred, y_true): 1 - mean of the heatmaps' IoU.
Forward(p, t) ==
    LET m == Mean([i \in DOMAIN t |-> Iou(t[i], p[i])])
    IN  [num |-> m.den - m.num, den |-> m.den]

\* criterion(y_pred, y_true)
Criterion ==
    /\ lpc = "call"
    /\ UNCHANGED <<trainVars, vitVars>>
    /\ iou_loss' = Forward(y_pred, y_true)
    /\ lpc' = "done"
    /\ UNCHANGED <<y_pred, y_true>>

IouNext ==
    \/ Criterion

InitIoU == TrainIdle /\ VitIdle /\ IouInit
SpecIoU == InitIoU /\ [][IouNext]_vars

\* Sum of f over the finite index set S.
RECURSIVE SumOver(_, _)
SumOver(f, S) ==
    IF S = {} THEN 0
    ELSE LET i == CHOOSE j \in S : TRUE IN f[i] + SumOver(f, S \ {i})

\* All pixel positions of a heatmap.
Positions(m) == {<<r, c>> : r \in DOMAIN m, c \in DOMAIN m[1]}

\* Sum over all pixels of a * b.
Dot(a, b) == SumOver([rc \in Positions(a) |-> a[rc[1]][rc[2]] * b[rc[1]][rc[2]]],
                     Positions(a))

\* Numerator and denominator of (inter + EPSILON) / (union + EPSILON) of heatmap i.
IouNum(i) == Dot(y_true[i], y_pred[i]) * EpsilonInverse + PixelDen * PixelDen
IouDen(i) ==
    (Dot(y_true[i], y_true[i]) + Dot(y_pred[i], y_pred[i]) - Dot(y_true[i], y_pred[i]))
        * EpsilonInverse + PixelDen * PixelDen

RECURSIVE GCD(_, _)
GCD(a, b) == IF b = 0 THEN a ELSE GCD(b, a % b)

\* A fraction with a positive denominator in lowest terms.
Normal(f) ==
    LET g == GCD(IF f.num < 0 THEN -f.num ELSE f.num, f.den)
    IN  [num |-> f.num \div g, den |-> f.den \div g]

\* C6: the returned loss is 1 minus the mean over the heatmaps of
\* (inter + EPSILON) / (union + EPSILON), with inter = sum(y_true * y_pred) and
\* union = sum(y_true^2) + sum(y_pred^2) - sum(y_true * y_pred); for y_pred equal
\* to y_true elementwise (all-zero heatmaps included) every IoU is exactly 1 and
\* the loss is exactly 0.
C6_IoULoss ==
    lpc = "done" =>
        LET b == Len(y_true)
        IN  /\ \A i \in 1..b : IouDen(i) > 0
            /\ iou_loss.den > 0
            /\ Normal(iou_loss) =
                   Normal(IF b = 1
                          THEN [num |-> IouDen(1) - IouNum(1), den |-> IouDen(1)]
                          ELSE [num |-> 2 * IouDen(1) * IouDen(2)
                                          - IouNum(1) * IouDen(2)
                                          - IouNum(2) * IouDen(1),
                                den |-> 2 * IouDen(1) * IouDen(2)])
            /\ (y_pred = y_true =>
                   /\ \A i \in 1..b : IouNum(i) = IouDen(i)
                   /\ iou_loss.num = 0)

\* The loss of a prediction equal to non-zero ground truth, over two heatmaps.
C6_Witness ==
    /\ lpc = "done"
    /\ y_pred = y_true
    /\ Len(y_true) = 2
    /\ \A i \in 1..2 : Dot(y_true[i], y_true[i]) > 0
    /\ iou_loss.num = 0

====
